---- MODULE Spec2Model ----
(***************************************************************************)
(* OTP lifecycle and rate-limit / lockout state machine of the accounts    *)
(* app (api/accounts/views.py).  Every request handler is a process whose  *)
(* steps are the single round trips it makes to the Redis store; the store *)
(* is the only shared state.  Time is the remaining lifetime of each key.  *)
(***************************************************************************)
EXTENDS Integers, Sequences, FiniteSets, TLC

\* ------------------------------------------------------------------ config
OTP_LENGTH == 6
OTP_EXPIRY_SECONDS == 300
EMAIL_LIMIT == 3
EMAIL_WINDOW_SECONDS == 600
IP_LIMIT == 10
IP_WINDOW_SECONDS == 3600
FAILED_LIMIT == 5
FAILED_WINDOW_SECONDS == 900
\* shared_task(max_retries=3) and self.retry(countdown=60) of both tasks
MAX_RETRIES == 3
RETRY_COUNTDOWN == 60
\* CharField(max_length=6, min_length=6) of OTPVerifySerializer
max_length == 6
min_length == 6

\* ------------------------------------------------------------------ bounds
\* The clock advances in steps of one OTP lifetime.
TimeUnit == OTP_EXPIRY_SECONDS
\* Under the expiry load it advances in steps of half an OTP lifetime.
FineUnit == OTP_EXPIRY_SECONDS \div 2
\* Under the issue load a client stops sending issue requests once a rate
\* counter is this far above its limit.
MaxOver == 2
\* Under the verify load a client sends at most this many issue requests per
\* rate window.
MaxIssue == 2
\* Under the task load the broker holds at most this many tasks at a time.
MaxTasks == 2
\* Request handlers that can run at the same time.
Procs == {"p1", "p2"}
\* Every identity a request can carry; every address a request can come from
\* or name in its forwarding header.
Emails == {"a@x.com", "b@x.com"}
Addrs == {"10.0.0.1", "10.0.0.2"}
\* A forwarding header has at most this many comma-separated fields.
MaxFields == 2
\* The codes generate_otp can draw and a client can present.
Codes == {"000000", "000001"}
\* Under the format load: the values OTP_LENGTH is configured with, the
\* digits generate_otp draws from, the other characters a client can type.
Lengths == {OTP_LENGTH - 1, OTP_LENGTH, OTP_LENGTH + 1}
Digits == {"0", "1"}
Others == {"x"}

\* ------------------------------------------------------------------- state
VARIABLES
    redis,       \* key -> [val, ttl]; ttl = -2 absent, -1 no expiry, else seconds left
    req,         \* process -> the request it is handling and its locals
    load,        \* what this run offers: identities and kinds per worker, pacing,
                 \*   codes drawn, the step of the clock
    lastIssued,  \* history: email -> the latest store_otp: its code, the code it
                 \*   replaced, the seconds it has left; NoIssue once consumed or expired
    wins,        \* history: email -> 201 answers given for the latest stored code
    fsince,      \* history: email -> failures recorded since the last clear or expiry,
                 \*   and those the last clear removed (since the last clock step)
    lifted,      \* history: email -> a lockout ended by expiry, no verify outcome since
    reached,     \* history: email -> the issue requests the email limiter counted in
                 \*   the current window, and how many of them it let pass
    age,         \* history: counter key -> seconds since the increment that created it
                 \*   (kept under the loads whose clock advances between requests)
    barred,      \* history: email -> a failure was answered 423 and the failure
                 \*   counter has not expired since
    celery,      \* broker slot -> the task message it holds, NoTask when free
                 \*   (kept under the loads that run the task worker)
    recent       \* history: rate counter key -> the requests answered 202 in each
                 \*   of the last clock steps that fit in its window, latest first
                 \*   (kept under the loads that track it)

vars == <<redis, req, load, lastIssued, wins, fsince, lifted, reached, age, barred,
          celery, recent>>

\* ---------------------------------------------------------------- the store
OtpKey(email) == <<"otp", email>>
EmailKey(email) == <<"ratelimit:email", email>>
IpKey(ip) == <<"ratelimit:ip", ip>>
FailedKey(email) == <<"failed_otp", email>>

Keys == {OtpKey(e) : e \in Emails} \cup {EmailKey(e) : e \in Emails}
        \cup {IpKey(a) : a \in Addrs} \cup {FailedKey(e) : e \in Emails}

CounterKeys == {k \in Keys : k[1] # "otp"}

RateKeys == {k \in Keys : k[1] \in {"ratelimit:email", "ratelimit:ip"}}

\* The configured lifetime of a key.
Lifetime(key) ==
    IF key[1] = "otp" THEN OTP_EXPIRY_SECONDS
    ELSE IF key[1] = "ratelimit:email" THEN EMAIL_WINDOW_SECONDS
    ELSE IF key[1] = "ratelimit:ip" THEN IP_WINDOW_SECONDS
    ELSE FAILED_WINDOW_SECONDS

Absent(key) == [val |-> IF key[1] = "otp" THEN "" ELSE 0, ttl |-> -2]

Exists(store, key) == store[key].ttl # -2

\* redis_client.get(key): the value, or the falsy value of an absent key
GET(store, key) == store[key].val

\* redis_client.ttl(key): -2 for an absent key, -1 for a key without expiry
TTL(store, key) == store[key].ttl

\* redis_client.incr(key): an absent key is created as 1 without an expiry
INCR(store, key) ==
    IF Exists(store, key)
    THEN [store EXCEPT ![key].val = @ + 1]
    ELSE [store EXCEPT ![key] = [val |-> 1, ttl |-> -1]]

\* redis_client.expire(key, seconds): no effect on an absent key
EXPIRE(store, key, seconds) ==
    IF Exists(store, key) THEN [store EXCEPT ![key].ttl = seconds] ELSE store

\* Mutant: a set that keeps the value of a key that exists.
SETEX_keep(store, key, seconds, value) ==
    IF store[key].ttl # -2 THEN store
    ELSE [store EXCEPT ![key] = [val |-> value, ttl |-> seconds]]

\* Mutant: a set that keeps the expiry of a key that exists.
SETEX_keepttl(store, key, seconds, value) ==
    IF store[key].ttl # -2 THEN [store EXCEPT ![key].val = value]
    ELSE [store EXCEPT ![key] = [val |-> value, ttl |-> seconds]]

\* redis_client.setex(key, seconds, value)
SETEX(store, key, seconds, value) ==
    [store EXCEPT ![key] = [val |-> value, ttl |-> seconds]]

\* redis_client.delete(key)
DEL(store, key) == [store EXCEPT ![key] = Absent(key)]

\* The store after step seconds: lifetimes shrink, expired keys vanish.
Elapse(store, step) ==
    [k \in Keys |->
        IF store[k].ttl > step THEN [store[k] EXCEPT !.ttl = @ - step]
        ELSE IF store[k].ttl >= 0 THEN Absent(k)
        ELSE store[k]]

\* ---------------------------------------------------------------- the broker
Slots == 1..MaxTasks

\* A task message: the task, the identity and the event or code it was called
\* with, the executions it has had (self.request.retries), the seconds before
\* it may run again and the countdown its last retry asked for.
NoTask == [name |-> "", email |-> "", arg |-> "", runs |-> 0, eta |-> 0,
           countdown |-> 0]

FreeSlots(queue) == {s \in Slots : queue[s].name = ""}

\* task.delay(...): the message takes a free slot of the broker.
Delay(queue, email, task) ==
    LET s == CHOOSE f \in FreeSlots(queue) : \A g \in FreeSlots(queue) : f <= g
    IN [queue EXCEPT ![s] =
            [NoTask EXCEPT !.name = task[1], !.email = email, !.arg = task[2]]]

RECURSIVE DelayAll(_, _, _)
DelayAll(queue, email, tasks) ==
    IF tasks = <<>> THEN queue
    ELSE DelayAll(Delay(queue, email, Head(tasks)), email, Tail(tasks))

\* ------------------------------------------------------- the client address
\* A field of the X-Forwarded-For header: an address, with or without blanks
\* around it.  A header is the sequence of its comma-separated fields; a
\* request without the header (or with an empty one) carries none.
Fields == [blanks : BOOLEAN, text : Addrs]

Headers == UNION {[1..n -> Fields] : n \in 0..MaxFields}

\* x_forwarded_for.split(',')
split(header) == header

\* str.strip()
strip(field) == field.text

\* get_client_ip: the first field of X-Forwarded-For when the request has
\* the header, REMOTE_ADDR otherwise
get_client_ip(META) ==
    LET x_forwarded_for == META.HTTP_X_FORWARDED_FOR
    IN IF x_forwarded_for # <<>>
       THEN strip(split(x_forwarded_for)[1])
       ELSE META.REMOTE_ADDR

\* request.META of a request from the given peer with the given header.
Meta(peer, header) == [REMOTE_ADDR |-> peer, HTTP_X_FORWARDED_FOR |-> header]

\* ------------------------------------------------------------ the processes
\* pc: the next round trip; email, ip, otp: the request; peer: the address
\* the connection came from; ecur, icur, count,
\* stored, current: what the store returned; status, eta, reason, tasks: the
\* response and the tasks enqueued; fresh, lifted: history; wrote: history,
\* the keys the request has sent a write for (incr, expire, setex, delete);
\* fpre: history, the failure counter as the lock check found it.
Idle == [pc |-> "idle", kind |-> "none", email |-> "", ip |-> "", peer |-> "",
         otp |-> "",
         ecur |-> 0, icur |-> 0, count |-> 0, stored |-> "", current |-> 0,
         fresh |-> FALSE, lifted |-> FALSE, wrote |-> {},
         fpre |-> [val |-> 0, ttl |-> -2],
         status |-> 0, eta |-> 0, reason |-> "", tasks |-> <<>>]

NoIssue == [otp |-> "", prev |-> "", left |-> 0]
NoFailure == [n |-> 0, before |-> 0]
NoneReached == [n |-> 0, passed |-> 0]

\* The state after start-up: an empty store, idle workers, a fixed load.
InitWith(offered) ==
    /\ redis = [k \in Keys |-> Absent(k)]
    /\ req = [p \in Procs |-> Idle]
    /\ load = offered
    /\ lastIssued = [e \in Emails |-> NoIssue]
    /\ wins = [e \in Emails |-> 0]
    /\ fsince = [e \in Emails |-> NoFailure]
    /\ lifted = [e \in Emails |-> FALSE]
    /\ reached = [e \in Emails |-> NoneReached]
    /\ age = [k \in CounterKeys |-> 0]
    /\ barred = [e \in Emails |-> FALSE]
    /\ celery = [s \in Slots |-> NoTask]
    /\ recent = [k \in RateKeys |-> [i \in 1..(Lifetime(k) \div offered.unit) |-> 0]]

Ghosts == <<lastIssued, wins, fsince, lifted, reached, age, barred, recent>>

\* Response(...) of a view: status code, the data field, the tasks enqueued.
Respond(r, status, eta, reason, tasks) ==
    [r EXCEPT !.pc = "done", !.status = status, !.eta = eta,
              !.reason = reason, !.tasks = r.tasks \o tasks]

Audit(event) == <<"write_audit_log", event>>
Mail(otp) == <<"send_otp_email", otp>>

\* The .delay calls of a step of handler p: the tasks the step added to the
\* request reach the broker, in the order of the calls.
Publish(p) ==
    celery' = IF load.async
              THEN DelayAll(celery, req'[p].email,
                            SubSeq(req'[p].tasks, Len(req[p].tasks) + 1,
                                   Len(req'[p].tasks)))
              ELSE celery

\* A view makes at most two .delay calls; a client sends a request when the
\* broker has room for the tasks of every request in flight.
Room(p) ==
    load.async =>
        Cardinality(FreeSlots(celery)) >=
            2 * (1 + Cardinality({q \in Procs \ {p} : req[q].pc \notin {"idle", "done"}}))

\* The reason a limited issue request puts in its audit event.
EmailReason == "Email rate limit exceeded"
IpReason == "IP rate limit exceeded"

\* The threshold tests of RateLimiter.
\* Mutants: each threshold off by one.
EmailLimited_ge(current) == current >= EMAIL_LIMIT

IpLimited_ge(current) == current >= IP_LIMIT

NowLocked_gt(current) == current > FAILED_LIMIT

IsLocked_gt(count) == count # 0 /\ count > FAILED_LIMIT

EmailLimited(current) == current > EMAIL_LIMIT

IpLimited(current) == current > IP_LIMIT

NowLocked(current) == current >= FAILED_LIMIT

IsLocked(count) == count # 0 /\ count >= FAILED_LIMIT

\* ------------------------------------------------------ OTPRequestView.post
\* A request arrives; the serializer accepts or rejects its body.
IssueStart(p) ==
    /\ req[p].pc = "idle"
    /\ "issue" \in load.kinds[p]
    /\ Room(p)
    /\ \E e \in load.emails[p], peer \in load.peers, header \in load.headers,
          valid \in BOOLEAN :
        LET a == get_client_ip(Meta(peer, header)) IN
        /\ redis[EmailKey(e)].val < load.emailCap
        /\ redis[IpKey(a)].val < load.ipCap
        /\ req' = [req EXCEPT ![p] =
                IF valid
                THEN [Idle EXCEPT !.pc = "email_incr", !.kind = "issue",
                                  !.email = e, !.ip = a, !.peer = peer]
                ELSE Respond([Idle EXCEPT !.kind = "issue"], 400, 0, "invalid", <<>>)]
    /\ UNCHANGED <<redis, load, Ghosts>>
    /\ Publish(p)

\* Mutant: a read-modify-write increment; the update is lost when another
\* handler is between its own increment and its answer for the same key.
EmailIncr_lost(p) ==
    /\ req[p].pc = "email_incr"
    /\ LET key == EmailKey(req[p].email)
           raced == \E q \in Procs \ {p} :
                        /\ req[q].email = req[p].email
                        /\ req[q].pc \in {"email_expire", "email_ttl", "ip_incr"}
           store == IF raced THEN redis ELSE INCR(redis, key)
           current == GET(store, key)
       IN /\ redis' = store
          /\ req' = [req EXCEPT ![p].ecur = current,
                ![p].wrote = @ \cup {key},
                ![p].pc = IF current = 1 THEN "email_expire"
                          ELSE IF EmailLimited(current) THEN "email_ttl"
                          ELSE "ip_incr"]
          /\ reached' = [reached EXCEPT ![req[p].email] =
                [n |-> @.n + 1,
                 passed |-> IF EmailLimited(current) THEN @.passed ELSE @.passed + 1]]
    /\ UNCHANGED <<load, lastIssued, wins, fsince, lifted, age, barred, recent>>
    /\ Publish(p)

\* Mutant: a sliding window; every increment is followed by the expire call.
EmailIncr_slide(p) ==
    /\ req[p].pc = "email_incr"
    /\ LET key == EmailKey(req[p].email)
           store == INCR(redis, key)
           current == GET(store, key)
       IN /\ redis' = store
          /\ req' = [req EXCEPT ![p].ecur = current,
                ![p].wrote = @ \cup {key}, ![p].pc = "email_expire"]
          /\ reached' = [reached EXCEPT ![req[p].email] =
                [n |-> @.n + 1,
                 passed |-> IF EmailLimited(current) THEN @.passed ELSE @.passed + 1]]
    /\ UNCHANGED <<load, lastIssued, wins, fsince, lifted, age, barred, recent>>
    /\ Publish(p)

\* Mutant: both counters are incremented before the email limit is applied.
EmailIncr_both(p) ==
    /\ req[p].pc = "email_incr"
    /\ LET key == EmailKey(req[p].email)
           store == INCR(redis, key)
           current == GET(store, key)
       IN /\ redis' = INCR(store, IpKey(req[p].ip))
          /\ req' = [req EXCEPT ![p].ecur = current,
                ![p].wrote = @ \cup {key},
                ![p].pc = IF current = 1 THEN "email_expire"
                          ELSE IF EmailLimited(current) THEN "email_ttl"
                          ELSE "ip_incr"]
          /\ reached' = [reached EXCEPT ![req[p].email] =
                [n |-> @.n + 1,
                 passed |-> IF EmailLimited(current) THEN @.passed ELSE @.passed + 1]]
    /\ UNCHANGED <<load, lastIssued, wins, fsince, lifted, age, barred, recent>>
    /\ Publish(p)

\* is_email_rate_limited: current = redis_client.incr(key)
EmailIncr(p) ==
    /\ req[p].pc = "email_incr"
    /\ LET key == EmailKey(req[p].email)
           store == INCR(redis, key)
           current == GET(store, key)
       IN /\ redis' = store
          /\ req' = [req EXCEPT ![p].ecur = current,
                ![p].wrote = @ \cup {key},
                ![p].pc = IF current = 1 THEN "email_expire"
                          ELSE IF EmailLimited(current) THEN "email_ttl"
                          ELSE "ip_incr"]
          /\ reached' = [reached EXCEPT ![req[p].email] =
                [n |-> @.n + 1,
                 passed |-> IF EmailLimited(current) THEN @.passed ELSE @.passed + 1]]
    /\ UNCHANGED <<load, lastIssued, wins, fsince, lifted, age, barred, recent>>
    /\ Publish(p)

\* Mutant: the new window is one clock step shorter than configured.
EmailExpire_short(p) ==
    /\ req[p].pc = "email_expire"
    /\ redis' = EXPIRE(redis, EmailKey(req[p].email), EMAIL_WINDOW_SECONDS - TimeUnit)
    /\ req' = [req EXCEPT ![p].pc =
            IF EmailLimited(req[p].ecur) THEN "email_ttl" ELSE "ip_incr"]
    /\ UNCHANGED <<load, Ghosts>>
    /\ Publish(p)

\* is_email_rate_limited: redis_client.expire(key, EMAIL_WINDOW_SECONDS)
EmailExpire(p) ==
    /\ req[p].pc = "email_expire"
    /\ redis' = EXPIRE(redis, EmailKey(req[p].email), EMAIL_WINDOW_SECONDS)
    /\ req' = [req EXCEPT ![p].pc =
            IF EmailLimited(req[p].ecur) THEN "email_ttl" ELSE "ip_incr"]
    /\ UNCHANGED <<load, Ghosts>>
    /\ Publish(p)

\* is_email_rate_limited: ttl = redis_client.ttl(key); post answers 429
EmailTtl(p) ==
    /\ req[p].pc = "email_ttl"
    /\ req' = [req EXCEPT ![p] =
            Respond(req[p], 429, TTL(redis, EmailKey(req[p].email)),
                    EmailReason, <<Audit("OTP_REQUESTED")>>)]
    /\ UNCHANGED <<redis, load, Ghosts>>
    /\ Publish(p)

\* Mutant: the address counter is incremented but its limit is not applied.
IpIncr_ignore(p) ==
    /\ req[p].pc = "ip_incr"
    /\ LET key == IpKey(req[p].ip)
           store == INCR(redis, key)
           current == GET(store, key)
       IN /\ redis' = store
          /\ req' = [req EXCEPT ![p].icur = current,
                ![p].wrote = @ \cup {key},
                ![p].pc = IF current = 1 THEN "ip_expire" ELSE "store"]
    /\ UNCHANGED <<load, Ghosts>>
    /\ Publish(p)

\* is_ip_rate_limited: current = redis_client.incr(key)
IpIncr(p) ==
    /\ req[p].pc = "ip_incr"
    /\ LET key == IpKey(req[p].ip)
           store == INCR(redis, key)
           current == GET(store, key)
       IN /\ redis' = store
          /\ req' = [req EXCEPT ![p].icur = current,
                ![p].wrote = @ \cup {key},
                ![p].pc = IF current = 1 THEN "ip_expire"
                          ELSE IF IpLimited(current) THEN "ip_ttl"
                          ELSE "store"]
    /\ UNCHANGED <<load, Ghosts>>
    /\ Publish(p)

\* is_ip_rate_limited: redis_client.expire(key, IP_WINDOW_SECONDS)
IpExpire(p) ==
    /\ req[p].pc = "ip_expire"
    /\ redis' = EXPIRE(redis, IpKey(req[p].ip), IP_WINDOW_SECONDS)
    /\ req' = [req EXCEPT ![p].pc =
            IF IpLimited(req[p].icur) THEN "ip_ttl" ELSE "store"]
    /\ UNCHANGED <<load, Ghosts>>
    /\ Publish(p)

\* is_ip_rate_limited: ttl = redis_client.ttl(key); post answers 429
IpTtl(p) ==
    /\ req[p].pc = "ip_ttl"
    /\ req' = [req EXCEPT ![p] =
            Respond(req[p], 429, TTL(redis, IpKey(req[p].ip)),
                    IpReason, <<Audit("OTP_REQUESTED")>>)]
    /\ UNCHANGED <<redis, load, Ghosts>>
    /\ Publish(p)

\* Mutant: issuing a code also lifts the lockout of the identity.
StoreOtp_unlock(p) ==
    /\ req[p].pc = "store"
    /\ \E otp \in load.codes :
        LET e == req[p].email IN
        /\ redis' = DEL(SETEX(redis, OtpKey(e), OTP_EXPIRY_SECONDS, otp), FailedKey(e))
        /\ req' = [q \in Procs |->
                IF q = p
                THEN Respond([req[p] EXCEPT !.otp = otp, !.wrote = @ \cup {OtpKey(e)}], 202, OTP_EXPIRY_SECONDS, "",
                             <<Mail(otp), Audit("OTP_REQUESTED")>>)
                ELSE IF req[q].email = e THEN [req[q] EXCEPT !.fresh = FALSE]
                ELSE req[q]]
        /\ lastIssued' = [lastIssued EXCEPT ![e] =
                [otp |-> otp, prev |-> @.otp, left |-> OTP_EXPIRY_SECONDS]]
        /\ wins' = [wins EXCEPT ![e] = 0]
        /\ recent' = IF load.track
                     THEN [recent EXCEPT ![EmailKey(e)][1] = @ + 1,
                                         ![IpKey(req[p].ip)][1] = @ + 1]
                     ELSE recent
    /\ UNCHANGED <<load, fsince, lifted, reached, age, barred>>
    /\ Publish(p)

\* generate_otp, store_otp, the two .delay calls and the 202 answer
StoreOtp(p) ==
    /\ req[p].pc = "store"
    /\ \E otp \in load.codes :
        LET e == req[p].email IN
        /\ redis' = SETEX(redis, OtpKey(e), OTP_EXPIRY_SECONDS, otp)
        /\ req' = [q \in Procs |->
                IF q = p
                THEN Respond([req[p] EXCEPT !.otp = otp, !.wrote = @ \cup {OtpKey(e)}], 202, OTP_EXPIRY_SECONDS, "",
                             <<Mail(otp), Audit("OTP_REQUESTED")>>)
                ELSE IF req[q].email = e THEN [req[q] EXCEPT !.fresh = FALSE]
                ELSE req[q]]
        /\ lastIssued' = [lastIssued EXCEPT ![e] =
                [otp |-> otp, prev |-> @.otp, left |-> OTP_EXPIRY_SECONDS]]
        /\ wins' = [wins EXCEPT ![e] = 0]
        /\ recent' = IF load.track
                     THEN [recent EXCEPT ![EmailKey(e)][1] = @ + 1,
                                         ![IpKey(req[p].ip)][1] = @ + 1]
                     ELSE recent
    /\ UNCHANGED <<load, fsince, lifted, reached, age, barred>>
    /\ Publish(p)

\* ------------------------------------------------------- OTPVerifyView.post
\* A request arrives; the serializer accepts or rejects its body.
VerifyStart(p) ==
    /\ req[p].pc = "idle"
    /\ "verify" \in load.kinds[p]
    /\ Room(p)
    /\ \E e \in load.emails[p], peer \in load.peers, header \in load.headers,
          otp \in Codes, valid \in BOOLEAN :
        LET a == get_client_ip(Meta(peer, header)) IN
        req' = [req EXCEPT ![p] =
            IF valid
            THEN [Idle EXCEPT !.pc = "lock_get", !.kind = "verify",
                              !.email = e, !.ip = a, !.peer = peer, !.otp = otp,
                              !.lifted = lifted[e]]
            ELSE Respond([Idle EXCEPT !.kind = "verify"], 400, 0, "invalid", <<>>)]
    /\ UNCHANGED <<redis, load, Ghosts>>
    /\ Publish(p)

\* is_email_locked: count = redis_client.get(key)
LockGet(p) ==
    /\ req[p].pc = "lock_get"
    /\ LET count == GET(redis, FailedKey(req[p].email))
       IN req' = [req EXCEPT ![p].count = count,
                ![p].fpre = redis[FailedKey(req[p].email)],
                ![p].pc = IF IsLocked(count) THEN "lock_ttl" ELSE "otp_get"]
    /\ UNCHANGED <<redis, load, Ghosts>>
    /\ Publish(p)

\* Mutant: a locked identity is answered without an audit event.
LockTtl_silent(p) ==
    /\ req[p].pc = "lock_ttl"
    /\ req' = [req EXCEPT ![p] =
            Respond(req[p], 423, TTL(redis, FailedKey(req[p].email)),
                    "locked", <<>>)]
    /\ UNCHANGED <<redis, load, Ghosts>>
    /\ Publish(p)

\* is_email_locked: ttl = redis_client.ttl(key); post answers 423
LockTtl(p) ==
    /\ req[p].pc = "lock_ttl"
    /\ req' = [req EXCEPT ![p] =
            Respond(req[p], 423, TTL(redis, FailedKey(req[p].email)),
                    "locked", <<Audit("OTP_LOCKED")>>)]
    /\ UNCHANGED <<redis, load, Ghosts>>
    /\ Publish(p)

\* Mutant: a presented code that does not match burns the stored code.
OtpGet_burn(p) ==
    /\ req[p].pc = "otp_get"
    /\ LET key == OtpKey(req[p].email)
           stored_otp == GET(redis, key)
       IN /\ req' = [req EXCEPT ![p].stored = stored_otp,
                ![p].fresh = (stored_otp # ""),
                ![p].pc = IF stored_otp = "" THEN "fail_incr"
                          ELSE IF stored_otp # req[p].otp THEN "fail_incr"
                          ELSE "otp_del"]
          /\ redis' = IF stored_otp # req[p].otp THEN DEL(redis, key) ELSE redis
          /\ lastIssued' = IF stored_otp # req[p].otp
                           THEN [lastIssued EXCEPT ![req[p].email] = NoIssue]
                           ELSE lastIssued
    /\ UNCHANGED <<load, wins, fsince, lifted, reached, age, barred, recent>>
    /\ Publish(p)

\* Mutant: a verify that finds no code says so and is not counted as a
\* failure.
OtpGet_tell(p) ==
    /\ req[p].pc = "otp_get"
    /\ LET stored_otp == GET(redis, OtpKey(req[p].email))
           r == [req[p] EXCEPT !.stored = stored_otp, !.fresh = (stored_otp # "")]
       IN req' = [req EXCEPT ![p] =
                IF stored_otp = ""
                THEN Respond(r, 400, 0, "OTP expired", <<Audit("OTP_FAILED")>>)
                ELSE IF stored_otp # req[p].otp THEN [r EXCEPT !.pc = "fail_incr"]
                ELSE [r EXCEPT !.pc = "otp_del"]]
    /\ UNCHANGED <<redis, load, Ghosts>>
    /\ Publish(p)

\* verify_otp: stored_otp = redis_client.get(key) and the two comparisons
OtpGet(p) ==
    /\ req[p].pc = "otp_get"
    /\ LET stored_otp == GET(redis, OtpKey(req[p].email))
       IN req' = [req EXCEPT ![p].stored = stored_otp,
                ![p].fresh = (stored_otp # ""),
                ![p].pc = IF stored_otp = "" THEN "fail_incr"
                          ELSE IF stored_otp # req[p].otp THEN "fail_incr"
                          ELSE "otp_del"]
    /\ UNCHANGED <<redis, load, Ghosts>>
    /\ Publish(p)

\* Mutant: consuming the code also gives the identity its email quota back.
OtpDel_quota(p) ==
    /\ req[p].pc = "otp_del"
    /\ redis' = DEL(DEL(redis, OtpKey(req[p].email)), EmailKey(req[p].email))
    /\ req' = [req EXCEPT ![p].pc = "clear",
                          ![p].wrote = @ \cup {OtpKey(req[p].email)}]
    /\ lastIssued' = [lastIssued EXCEPT ![req[p].email] = NoIssue]
    /\ UNCHANGED <<load, wins, fsince, lifted, reached, age, barred, recent>>
    /\ Publish(p)

\* verify_otp: redis_client.delete(key)
OtpDel(p) ==
    /\ req[p].pc = "otp_del"
    /\ redis' = DEL(redis, OtpKey(req[p].email))
    /\ req' = [req EXCEPT ![p].pc = "clear",
                          ![p].wrote = @ \cup {OtpKey(req[p].email)}]
    /\ lastIssued' = [lastIssued EXCEPT ![req[p].email] = NoIssue]
    /\ UNCHANGED <<load, wins, fsince, lifted, reached, age, barred, recent>>
    /\ Publish(p)

\* Mutant: a successful verification that leaves the failure counter.
ClearFailed_keep(p) ==
    /\ req[p].pc = "clear"
    /\ LET e == req[p].email IN
        /\ req' = [req EXCEPT ![p] =
                Respond(req[p], 201, 0, "", <<Audit("OTP_VERIFIED")>>)]
        /\ fsince' = [fsince EXCEPT ![e] = [n |-> 0, before |-> @.n]]
        /\ wins' = [wins EXCEPT ![e] = IF req[p].fresh THEN @ + 1 ELSE @]
        /\ lifted' = [lifted EXCEPT ![e] = FALSE]
    /\ UNCHANGED <<redis, load, lastIssued, reached, age, barred, recent>>
    /\ Publish(p)

\* get_or_create, clear_failed_attempts, RefreshToken.for_user, the 201 answer
ClearFailed(p) ==
    /\ req[p].pc = "clear"
    /\ LET e == req[p].email IN
        /\ redis' = DEL(redis, FailedKey(e))
        /\ req' = [req EXCEPT ![p] =
                Respond([req[p] EXCEPT !.wrote = @ \cup {FailedKey(e)}],
                        201, 0, "", <<Audit("OTP_VERIFIED")>>)]
        /\ fsince' = [fsince EXCEPT ![e] = [n |-> 0, before |-> @.n]]
        /\ wins' = [wins EXCEPT ![e] = IF req[p].fresh THEN @ + 1 ELSE @]
        /\ lifted' = [lifted EXCEPT ![e] = FALSE]
        /\ age' = [age EXCEPT ![FailedKey(e)] = 0]
    /\ UNCHANGED <<load, lastIssued, reached, barred, recent>>
    /\ Publish(p)

\* The 423 or 400 answer of a failed verification.
Failed(r) ==
    IF NowLocked(r.current)
    THEN [r EXCEPT !.pc = "fail_ttl"]
    ELSE Respond(r, 400, 0, "Invalid OTP", <<Audit("OTP_FAILED")>>)

\* Mutant: only a code that differs from a stored one is counted; a verify
\* that found no code is answered 400 and leaves the counter.
FailIncr_wrongonly(p) ==
    /\ req[p].pc = "fail_incr"
    /\ LET e == req[p].email
           key == FailedKey(e)
           counted == req[p].stored # ""
           store == IF counted THEN INCR(redis, key) ELSE redis
           current == GET(store, key)
           r == [req[p] EXCEPT !.current = current,
                               !.wrote = IF counted THEN @ \cup {key} ELSE @]
       IN /\ redis' = store
          /\ req' = [req EXCEPT ![p] =
                IF ~counted
                THEN Respond(r, 400, 0, "Invalid OTP", <<Audit("OTP_FAILED")>>)
                ELSE IF current = 1 THEN [r EXCEPT !.pc = "fail_expire"]
                ELSE Failed(r)]
          /\ fsince' = [fsince EXCEPT ![e].n = IF counted THEN @ + 1 ELSE @]
          /\ lifted' = [lifted EXCEPT ![e] = FALSE]
    /\ UNCHANGED <<load, lastIssued, wins, reached, age, barred, recent>>
    /\ Publish(p)

\* track_failed_attempt: current = redis_client.incr(key)
FailIncr(p) ==
    /\ req[p].pc = "fail_incr"
    /\ LET e == req[p].email
           key == FailedKey(e)
           store == INCR(redis, key)
           current == GET(store, key)
           r == [req[p] EXCEPT !.current = current, !.wrote = @ \cup {key}]
       IN /\ redis' = store
          /\ req' = [req EXCEPT ![p] =
                IF current = 1 THEN [r EXCEPT !.pc = "fail_expire"]
                ELSE Failed(r)]
          /\ fsince' = [fsince EXCEPT ![e].n = @ + 1]
          /\ lifted' = [lifted EXCEPT ![e] = FALSE]
    /\ UNCHANGED <<load, lastIssued, wins, reached, age, barred, recent>>
    /\ Publish(p)

\* Mutant: the failure counter never receives its expiry.
FailExpire_forget(p) ==
    /\ req[p].pc = "fail_expire"
    /\ req' = [req EXCEPT ![p] = Failed(req[p])]
    /\ UNCHANGED <<redis, load, Ghosts>>
    /\ Publish(p)

\* track_failed_attempt: redis_client.expire(key, FAILED_WINDOW_SECONDS)
FailExpire(p) ==
    /\ req[p].pc = "fail_expire"
    /\ redis' = EXPIRE(redis, FailedKey(req[p].email), FAILED_WINDOW_SECONDS)
    /\ req' = [req EXCEPT ![p] = Failed(req[p])]
    /\ UNCHANGED <<load, Ghosts>>
    /\ Publish(p)

\* track_failed_attempt: ttl = redis_client.ttl(key); post answers 423
FailTtl(p) ==
    /\ req[p].pc = "fail_ttl"
    /\ req' = [req EXCEPT ![p] =
            Respond(req[p], 423, TTL(redis, FailedKey(req[p].email)),
                    "Max failed attempts exceeded", <<Audit("OTP_LOCKED")>>)]
    /\ barred' = [barred EXCEPT ![req[p].email] =
            Exists(redis, FailedKey(req[p].email))]
    /\ UNCHANGED <<redis, load, lastIssued, wins, fsince, lifted, reached, age, recent>>
    /\ Publish(p)

\* A store call or, after the delete of a verify, the identity lookup or the
\* token call raises (connection lost, timeout) or the worker is stopped: the
\* call has no effect, nothing in the views catches the exception, the
\* request ends with a server error and the calls after it are not made.
Abort(p) ==
    /\ req[p].pc \notin {"idle", "done"}
    /\ req' = [req EXCEPT ![p] = Respond(req[p], 500, 0, "error", <<>>)]
    /\ UNCHANGED <<redis, load, Ghosts>>
    /\ Publish(p)

\* ------------------------------------------------ the format of a code
\* The strings of at most n characters, as sequences of characters.
Strings(n) == UNION {[1..k -> Digits \cup Others] : k \in 0..n}

\* generate_otp: ''.join(random.choices(string.digits, k=self.OTP_LENGTH)),
\* the codes it can return under a configured length.
generate_otp(length) == [1..length -> Digits]

\* str.isdigit(): not empty and every character a digit
isdigit(value) == value # <<>> /\ \A i \in 1..Len(value) : value[i] \in Digits

\* OTPVerifySerializer: the otp field passes CharField(max_length, min_length)
\* and validate_otp.
OtpFieldValid(value, length) ==
    /\ Len(value) <= max_length
    /\ Len(value) >= min_length
    /\ isdigit(value)

\* The issuer generates a code under the configured length.
Generate(p) ==
    /\ req[p].pc = "idle"
    /\ "format" \in load.kinds[p]
    /\ \E otp \in generate_otp(load.length) :
        req' = [req EXCEPT ![p] =
            [Idle EXCEPT !.pc = "generated", !.kind = "format", !.stored = otp]]
    /\ UNCHANGED <<redis, load, celery, Ghosts>>

\* A verify request presents a value (the generated code when the issuer has
\* generated one, any string otherwise); the serializer rejects it with 400
\* or passes it on to the lock check and the comparison.
Present(p) ==
    /\ req[p].pc \in {"idle", "generated"}
    /\ "format" \in load.kinds[p]
    /\ \E value \in IF req[p].pc = "generated" THEN {req[p].stored}
                     ELSE Strings(OTP_LENGTH + 1) :
        LET r == [req[p] EXCEPT !.kind = "format", !.otp = value,
                                !.stored = IF req[p].pc = "generated" THEN @ ELSE <<>>]
        IN
        req' = [req EXCEPT ![p] =
            IF OtpFieldValid(value, load.length)
            THEN Respond(r, 0, 0, "well-formed", <<>>)
            ELSE Respond(r, 400, 0, "invalid", <<>>)]
    /\ UNCHANGED <<redis, load, celery, Ghosts>>

\* ------------------------------------------------------- tasks.py, the worker
\* Mutant: a retry without a limit.
Retry_forever(t) ==
    [t EXCEPT !.runs = @ + 1, !.eta = RETRY_COUNTDOWN,
              !.countdown = RETRY_COUNTDOWN]

\* self.retry(exc=exc, countdown=60) in execution number t.runs + 1: the task
\* is sent again with the countdown while request.retries is below
\* max_retries; after that the exception is raised and the task has failed.
Retry(t) ==
    IF t.runs < MAX_RETRIES
    THEN [t EXCEPT !.runs = @ + 1, !.eta = RETRY_COUNTDOWN,
                   !.countdown = RETRY_COUNTDOWN]
    ELSE NoTask

\* The worker runs the task of slot s once: the body returns, or it raises
\* and the except clause calls self.retry.
Execute(s, name) ==
    /\ celery[s].name = name
    /\ celery[s].eta = 0
    /\ \E raised \in BOOLEAN :
        celery' = [celery EXCEPT ![s] = IF raised THEN Retry(celery[s]) ELSE NoTask]

\* Mutant: a delivery that raises revokes the code it could not deliver.
send_otp_email_revoke(s) ==
    /\ Execute(s, "send_otp_email")
    /\ redis' = IF celery'[s].runs > celery[s].runs
                THEN DEL(redis, OtpKey(celery[s].email)) ELSE redis
    /\ UNCHANGED <<req, load, Ghosts>>

\* send_otp_email: logs and prints the code
send_otp_email(s) ==
    /\ Execute(s, "send_otp_email")
    /\ UNCHANGED <<redis, req, load, Ghosts>>

\* write_audit_log: AuditLog.objects.create(...)
write_audit_log(s) ==
    /\ Execute(s, "write_audit_log")
    /\ UNCHANGED <<redis, req, load, Ghosts>>

\* The response has been sent; the worker takes the next request.
Return(p) ==
    /\ req[p].pc = "done"
    /\ req' = [req EXCEPT ![p] = Idle]
    /\ UNCHANGED <<redis, load, celery, Ghosts>>

\* One step of the clock passes; under a quiet load only between requests (a
\* request takes milliseconds).
Tick ==
    /\ load.quiet => \A p \in Procs : req[p].pc = "idle"
    /\ redis' = Elapse(redis, load.unit)
    /\ lastIssued' = [e \in Emails |->
            IF lastIssued[e].left > load.unit
            THEN [lastIssued[e] EXCEPT !.left = @ - load.unit] ELSE NoIssue]
    /\ fsince' = [e \in Emails |->
            IF Exists(redis', FailedKey(e))
            THEN [fsince[e] EXCEPT !.before = 0] ELSE NoFailure]
    /\ lifted' = [e \in Emails |->
            \/ lifted[e]
            \/ /\ redis[FailedKey(e)].val >= FAILED_LIMIT
               /\ ~Exists(redis', FailedKey(e))]
    /\ reached' = [e \in Emails |->
            IF Exists(redis', EmailKey(e)) THEN reached[e] ELSE NoneReached]
    /\ age' = [k \in CounterKeys |->
            IF ~load.quiet THEN age[k]
            ELSE IF ~Exists(redis', k) THEN 0
            ELSE IF age[k] + load.unit < Lifetime(k) THEN age[k] + load.unit
            ELSE Lifetime(k)]
    /\ barred' = [e \in Emails |-> barred[e] /\ Exists(redis', FailedKey(e))]
    /\ celery' = [s \in Slots |->
            IF celery[s].eta > load.unit
            THEN [celery[s] EXCEPT !.eta = @ - load.unit]
            ELSE [celery[s] EXCEPT !.eta = 0]]
    /\ recent' = [k \in RateKeys |->
            IF load.track
            THEN [i \in DOMAIN recent[k] |-> IF i = 1 THEN 0 ELSE recent[k][i - 1]]
            ELSE recent[k]]
    /\ UNCHANGED <<req, load, wins>>

\* ----------------------------------------------------------- specifications
IssueStep(p) ==
    \/ IssueStart(p)
    \/ EmailIncr(p)
    \/ EmailExpire(p)
    \/ IpIncr(p)
    \/ IpExpire(p)
    \/ StoreOtp(p)

Limited(p) ==
    \/ EmailTtl(p)
    \/ IpTtl(p)

VerifyStep(p) ==
    \/ VerifyStart(p)
    \/ LockGet(p)
    \/ LockTtl(p)
    \/ OtpGet(p)
    \/ OtpDel(p)
    \/ ClearFailed(p)
    \/ FailIncr(p)
    \/ FailExpire(p)
    \/ FailTtl(p)

\* One identity, one worker, both flows; issue requests are paced so that no
\* rate limit is reached.
VerifyLoad ==
    [emails |-> [p \in Procs |-> {"a@x.com"}],
     kinds |-> [p \in Procs |-> IF p = "p1" THEN {"issue", "verify"} ELSE {}],
     emailCap |-> MaxIssue, ipCap |-> MaxIssue, quiet |-> FALSE, codes |-> Codes,
     unit |-> TimeUnit, async |-> FALSE,
     length |-> OTP_LENGTH, track |-> FALSE,
     peers |-> {"10.0.0.1"}, headers |-> {<<>>}]

Init == InitWith(VerifyLoad)

Next ==
    \/ \E p \in Procs : IssueStep(p)
    \/ \E p \in Procs : VerifyStep(p)
    \/ \E p \in Procs : Return(p)
    \/ Tick

Spec == Init /\ [][Next]_vars

\* Every identity, one worker, the issue flow up to and beyond both limits;
\* generate_otp draws one code.
IssueLoad ==
    [emails |-> [p \in Procs |-> Emails], kinds |-> [p \in Procs |-> IF p = "p1" THEN {"issue"} ELSE {}],
     emailCap |-> EMAIL_LIMIT + MaxOver, ipCap |-> IP_LIMIT + MaxOver,
     quiet |-> FALSE, codes |-> {"000000"}, unit |-> TimeUnit, async |-> FALSE,
     length |-> OTP_LENGTH, track |-> FALSE,
     peers |-> {"10.0.0.1"}, headers |-> {<<>>}]

InitIssue == InitWith(IssueLoad)

NextIssue ==
    \/ \E p \in Procs : IssueStep(p)
    \/ \E p \in Procs : Limited(p)
    \/ \E p \in Procs : Return(p)
    \/ Tick

SpecIssue == InitIssue /\ [][NextIssue]_vars

NextMix ==
    \/ \E p \in Procs : IssueStep(p)
    \/ \E p \in Procs : EmailTtl(p)
    \/ \E p \in Procs : VerifyStep(p)
    \/ \E p \in Procs : Return(p)
    \/ Tick

\* One identity, two concurrent workers: one serves both flows, the other
\* verify requests; one issue request per rate window.
RaceLoad ==
    [emails |-> [p \in Procs |-> {"a@x.com"}],
     kinds |-> [p \in Procs |-> IF p = "p1" THEN {"issue", "verify"} ELSE {"verify"}],
     emailCap |-> 1, ipCap |-> 1, quiet |-> TRUE, codes |-> Codes, unit |-> TimeUnit, async |-> FALSE,
     length |-> OTP_LENGTH, track |-> FALSE,
     peers |-> {"10.0.0.1"}, headers |-> {<<>>}]

InitRace == InitWith(RaceLoad)

SpecRace == InitRace /\ [][Next]_vars

\* One identity, two concurrent workers: one serves both flows, the other
\* issue requests, up to and beyond the email limit; the clock advances
\* between requests.
MixLoad ==
    [emails |-> [p \in Procs |-> {"a@x.com"}],
     kinds |-> [p \in Procs |-> IF p = "p1" THEN {"issue", "verify"} ELSE {"issue"}],
     emailCap |-> EMAIL_LIMIT, ipCap |-> EMAIL_LIMIT,
     quiet |-> TRUE, codes |-> {"000000"}, unit |-> TimeUnit, async |-> FALSE,
     length |-> OTP_LENGTH, track |-> FALSE,
     peers |-> {"10.0.0.1"}, headers |-> {<<>>}]

InitMix == InitWith(MixLoad)

SpecMix == InitMix /\ [][NextMix]_vars

\* The verify load on a finer clock, so that a code can be replaced or
\* presented in the middle of its lifetime.
ExpiryLoad == [VerifyLoad EXCEPT !.unit = FineUnit]

InitExpiry == InitWith(ExpiryLoad)

SpecExpiry == InitExpiry /\ [][Next]_vars

\* Two identities, each with its own worker: the first is issued codes and
\* verified, the second is only verified and never has a code; the clock
\* advances between requests.
TwinLoad ==
    [emails |-> [p \in Procs |-> IF p = "p1" THEN {"a@x.com"} ELSE {"b@x.com"}],
     kinds |-> [p \in Procs |-> IF p = "p1" THEN {"issue", "verify"} ELSE {"verify"}],
     emailCap |-> 1, ipCap |-> 1, quiet |-> TRUE, codes |-> {"000000"},
     unit |-> TimeUnit, async |-> FALSE,
     length |-> OTP_LENGTH, track |-> FALSE,
     peers |-> {"10.0.0.1"}, headers |-> {<<>>}]

InitTwin == InitWith(TwinLoad)

SpecTwin == InitTwin /\ [][Next]_vars

\* The verify load with store failures: any round trip of a request can be
\* the one that fails.
NextFault ==
    \/ Next
    \/ \E p \in Procs : Abort(p)

SpecFault == Init /\ [][NextFault]_vars

\* The verify load with the task worker: one issue request per rate window,
\* one code, the clock advances between requests; every execution of a task
\* can be the one that raises.
TaskLoad ==
    [VerifyLoad EXCEPT !.emailCap = 1, !.ipCap = 1, !.codes = {"000000"},
                       !.quiet = TRUE, !.async = TRUE]

InitTask == InitWith(TaskLoad)

Worker ==
    \/ \E s \in Slots : send_otp_email(s)
    \/ \E s \in Slots : write_audit_log(s)

NextTask ==
    \/ Next
    \/ Worker

SpecTask == InitTask /\ [][NextTask]_vars

\* The steps of a request that has been received.
Proceed(p) ==
    \/ EmailIncr(p) \/ EmailExpire(p) \/ IpIncr(p) \/ IpExpire(p) \/ StoreOtp(p)
    \/ LockGet(p) \/ LockTtl(p) \/ OtpGet(p) \/ OtpDel(p) \/ ClearFailed(p)
    \/ FailIncr(p) \/ FailExpire(p) \/ FailTtl(p) \/ Return(p)

\* The issue flow with the task worker, under its scheduling: a request that
\* has been received is handled to its answer, time passes, and the worker
\* executes every task whose countdown has run out.
DeliverLoad ==
    [TaskLoad EXCEPT !.kinds = [p \in Procs |-> IF p = "p1" THEN {"issue"} ELSE {}]]

InitDeliver == InitWith(DeliverLoad)

NextDeliver ==
    \/ \E p \in Procs : IssueStep(p)
    \/ \E p \in Procs : Return(p)
    \/ Tick
    \/ Worker

SpecTaskFair ==
    /\ InitDeliver /\ [][NextDeliver]_vars
    /\ \A p \in Procs : WF_vars(Proceed(p))
    /\ SF_vars(Tick)
    /\ \A s \in Slots : WF_vars(send_otp_email(s) \/ write_audit_log(s))

\* The format of the codes alone, under each configured length: codes are
\* generated and values presented to the serializer.
FormatLoad ==
    [VerifyLoad EXCEPT !.kinds = [p \in Procs |-> IF p = "p1" THEN {"format"} ELSE {}]]

InitFormat == \E n \in Lengths : InitWith([FormatLoad EXCEPT !.length = n])

NextFormat ==
    \/ \E p \in Procs : Generate(p)
    \/ \E p \in Procs : Present(p)
    \/ \E p \in Procs : Return(p)

SpecFormat == InitFormat /\ [][NextFormat]_vars

\* One identity, one worker, the issue flow up to the email limit in every
\* window; the clock advances between requests and the accepted requests of
\* the last window lengths are recorded.
SpanLoad ==
    [emails |-> [p \in Procs |-> {"a@x.com"}],
     kinds |-> [p \in Procs |-> IF p = "p1" THEN {"issue"} ELSE {}],
     emailCap |-> EMAIL_LIMIT, ipCap |-> EMAIL_LIMIT + 1,
     quiet |-> TRUE, codes |-> {"000000"}, unit |-> TimeUnit, async |-> FALSE,
     length |-> OTP_LENGTH, track |-> TRUE,
     peers |-> {"10.0.0.1"}, headers |-> {<<>>}]

InitSpan == InitWith(SpanLoad)

NextSpan ==
    \/ \E p \in Procs : IssueStep(p)
    \/ \E p \in Procs : Return(p)
    \/ Tick

SpecSpan == InitSpan /\ [][NextSpan]_vars

\* One identity, two concurrent workers, the issue flow up to and beyond
\* both limits; the clock advances between requests.
BurstLoad ==
    [emails |-> [p \in Procs |-> {"a@x.com"}], kinds |-> [p \in Procs |-> {"issue"}],
     emailCap |-> EMAIL_LIMIT + MaxOver, ipCap |-> IP_LIMIT + MaxOver,
     quiet |-> TRUE, codes |-> {"000000"}, unit |-> TimeUnit, async |-> FALSE,
     length |-> OTP_LENGTH, track |-> FALSE,
     peers |-> {"10.0.0.1"}, headers |-> {<<>>}]

InitBurst == InitWith(BurstLoad)

SpecBurst == InitBurst /\ [][NextIssue]_vars

\* One identity, one worker, both flows, the issue flow up to and beyond both
\* limits; the clock advances between requests.
AuditLoad ==
    [emails |-> [p \in Procs |-> {"a@x.com"}],
     kinds |-> [p \in Procs |-> IF p = "p1" THEN {"issue", "verify"} ELSE {}],
     emailCap |-> EMAIL_LIMIT + 1, ipCap |-> IP_LIMIT + 1,
     quiet |-> TRUE, codes |-> {"000000"}, unit |-> TimeUnit, async |-> FALSE,
     length |-> OTP_LENGTH, track |-> FALSE,
     peers |-> {"10.0.0.1"}, headers |-> {<<>>}]

InitAudit == InitWith(AuditLoad)

NextAudit ==
    \/ \E p \in Procs : IssueStep(p)
    \/ \E p \in Procs : Limited(p)
    \/ \E p \in Procs : VerifyStep(p)
    \/ \E p \in Procs : Return(p)
    \/ Tick

SpecAudit == InitAudit /\ [][NextAudit]_vars

\* One identity, one peer, two concurrent workers, the issue flow up to the
\* email limit; the client sends its requests with any forwarding header or
\* none; the clock advances between requests.
SpoofLoad ==
    [BurstLoad EXCEPT !.emailCap = EMAIL_LIMIT, !.ipCap = EMAIL_LIMIT,
                      !.headers = Headers]

InitSpoof == InitWith(SpoofLoad)

NextSpoof ==
    \/ \E p \in Procs : IssueStep(p)
    \/ \E p \in Procs : EmailTtl(p)
    \/ \E p \in Procs : Return(p)
    \/ Tick

SpecSpoof == InitSpoof /\ [][NextSpoof]_vars

\* ------------------------------------------------------------------ claims
Moved(p) == req'[p] # req[p]

\* A well-formed request of the given kind is being handled.
Busy(r, kind) == r.kind = kind /\ r.pc # "done"

\* A well-formed request of the given kind has been answered.
Done(r, kind) == r.pc = "done" /\ r.kind = kind /\ r.reason # "invalid"

\* C1: for every identity, the code stored by one issue call earns at most
\* one 201 answer, whatever the interleaving of the verify requests.
C1_AtMostOneSuccess == \A e \in Emails : wins[e] <= 1

\* C2: the store holds exactly the code of the latest issue call while that
\* code has lifetime left and is not consumed, and the comparison of a verify
\* accepts a presented code exactly when it is that code; every other code,
\* those of earlier issue calls included, is rejected.
C2_LatestCodeOnly ==
    [][/\ \A e \in Emails : redis'[OtpKey(e)].val = lastIssued'[e].otp
       /\ \A p \in Procs :
            (Moved(p) /\ req[p].pc = "otp_get") =>
                LET latest == lastIssued[req[p].email]
                IN /\ (req'[p].pc = "otp_del") <=>
                        (latest.otp # "" /\ req[p].otp = latest.otp)
                   /\ (req'[p].pc = "fail_incr") <=>
                        (latest.otp = "" \/ req[p].otp # latest.otp)]_vars

C2_Witness ==
    \E p \in Procs :
        /\ req[p].pc = "otp_del"
        /\ lastIssued[req[p].email].prev \notin {"", req[p].otp}
        /\ lastIssued[req[p].email].otp = req[p].otp

\* C3: no step of a verify call whose presented code differs from the stored
\* one changes the OTP record, and a verify that follows k < FAILED_LIMIT
\* failures and presents the stored code is answered 201.
C3_FailedVerifyKeepsOtp ==
    [][\A p \in Procs :
        LET key == OtpKey(req[p].email) IN
        /\ (Moved(p) /\ Busy(req[p], "verify") /\ redis[key].val # req[p].otp)
                => redis'[key] = redis[key]
        /\ (Moved(p) /\ req[p].pc = "otp_get"
                /\ fsince[req[p].email].n < FAILED_LIMIT
                /\ redis[key].val = req[p].otp)
                => req'[p].pc = "otp_del"
        /\ (Moved(p) /\ req[p].pc = "otp_del") => req'[p].pc = "clear"
        /\ (Moved(p) /\ req[p].pc = "clear") => req'[p].status = 201]_vars

C3_Witness ==
    \E p \in Procs :
        /\ Done(req[p], "verify")
        /\ req[p].status = 201
        /\ req[p].count = FAILED_LIMIT - 1

\* C4: a verify call that finds the failure counter at or above FAILED_LIMIT
\* is answered 423 whatever code it presents, and none of its steps changes
\* any key of the store: no comparison, no delete, no increment, no expiry.
C4_LockedIsPureRead ==
    [][\A p \in Procs :
        /\ (Moved(p) /\ req[p].pc = "lock_get"
                /\ redis[FailedKey(req[p].email)].val >= FAILED_LIMIT)
                => (req'[p].pc = "lock_ttl" /\ redis' = redis)
        /\ (Moved(p) /\ req[p].pc = "lock_ttl")
                => /\ redis' = redis
                   /\ req'[p].pc = "done"
                   /\ req'[p].status = 423
                   /\ req'[p].stored = ""
                   /\ req'[p].current = 0]_vars

C4_Witness ==
    \E p \in Procs :
        /\ Done(req[p], "verify")
        /\ req[p].status = 423
        /\ req[p].reason = "locked"
        /\ redis[OtpKey(req[p].email)].val = req[p].otp
        /\ redis[FailedKey(req[p].email)].val = FAILED_LIMIT

C6_IpLimit ==
    [][\A p \in Procs :
        LET key == IpKey(req[p].ip)
            n == redis[key].val
        IN
        /\ (Moved(p) /\ req[p].pc = "ip_incr")
                => /\ req'[p].icur = n + 1
                   /\ n < IP_LIMIT => req'[p].pc \in {"ip_expire", "store"}
                   /\ n >= IP_LIMIT => req'[p].pc = "ip_ttl"
        /\ (Moved(p) /\ req[p].pc = "ip_expire") => req'[p].pc = "store"
        /\ (Moved(p) /\ req[p].pc = "store") => req'[p].status = 202
        /\ (Moved(p) /\ req[p].pc = "ip_ttl")
                => (req'[p].status = 429 /\ req'[p].reason = IpReason)]_vars

C6_Witness ==
    \E p \in Procs :
        /\ Done(req[p], "issue")
        /\ req[p].status = 429
        /\ req[p].reason = IpReason
        /\ req[p].icur = IP_LIMIT + 1
        /\ \A e \in Emails :
            /\ Exists(redis, EmailKey(e))
            /\ redis[EmailKey(e)].val <= EMAIL_LIMIT

\* C7: the step that answers 201 leaves the failure counter absent, the
\* counter always equals the failures recorded since the last success (or
\* expiry), and a verify is found or becomes locked only after FAILED_LIMIT
\* failures since then.
C7_SuccessClearsFailures ==
    [][/\ \A p \in Procs :
            (Moved(p) /\ req'[p].status = 201)
                => ~Exists(redis', FailedKey(req[p].email))
       /\ \A e \in Emails : redis'[FailedKey(e)].val = fsince'[e].n
       /\ \A p \in Procs :
            (Moved(p) /\ req'[p].pc \in {"lock_ttl", "fail_ttl"})
                => fsince'[req'[p].email].n >= FAILED_LIMIT]_vars

C7_Witness ==
    \E p \in Procs :
        /\ Done(req[p], "verify")
        /\ req[p].status = 400
        /\ req[p].current = FAILED_LIMIT - 1
        /\ fsince[req[p].email] = [n |-> FAILED_LIMIT - 1, before |-> FAILED_LIMIT - 1]

\* C8: a counter that locks always has an expiry within the failure window,
\* and once a lockout has ended by expiry a verify passes the lock check,
\* and with the stored code goes on to the 201 answer.
C8_LockLifts ==
    [][/\ \A e \in Emails :
            IsLocked(redis'[FailedKey(e)].val)
                => redis'[FailedKey(e)].ttl \in 1..FAILED_WINDOW_SECONDS
       /\ \A p \in Procs :
            LET e == req[p].email IN
            (Moved(p) /\ Busy(req[p], "verify") /\ lifted[e]) =>
                /\ req[p].pc = "lock_get" => req'[p].pc = "otp_get"
                /\ (req[p].pc = "otp_get" /\ redis[OtpKey(e)].val = req[p].otp)
                        => req'[p].pc = "otp_del"
                /\ req[p].pc = "otp_del" => req'[p].pc = "clear"
                /\ req[p].pc = "clear" => req'[p].status = 201]_vars

C8_Witness ==
    \E p \in Procs :
        /\ Done(req[p], "verify")
        /\ req[p].status = 201
        /\ req[p].lifted

\* C9: a well-formed verify request is answered 201 exactly when the lock
\* check found it unlocked and the presented code equals the stored one, 423
\* exactly when the lock check found it locked or its own failure brought the
\* counter to FAILED_LIMIT, and 400 otherwise.
C9_VerifyStatus ==
    \A p \in Procs :
        Done(req[p], "verify") =>
            LET r == req[p]
                locked == r.count >= FAILED_LIMIT
                matched == r.stored # "" /\ r.stored = r.otp
                failed == ~locked /\ ~matched
            IN /\ r.status \in {201, 400, 423}
               /\ r.status = 201 <=> (~locked /\ matched)
               /\ r.status = 423 <=> (locked \/ (failed /\ r.current >= FAILED_LIMIT))
               /\ r.status = 400 <=> (failed /\ r.current < FAILED_LIMIT)

C9_Witness ==
    \E p \in Procs :
        /\ Done(req[p], "verify")
        /\ req[p].status = 423
        /\ req[p].count = FAILED_LIMIT - 1
        /\ req[p].current = FAILED_LIMIT

\* C10: an issue request is answered 202 exactly when its email count and its
\* address count are within their limits; only the step that answers 202
\* writes the OTP record and schedules the delivery, so a request answered
\* 429 leaves the record as it was and schedules none.
C10_IssueOnlyWhenBothPass ==
    [][\A p \in Procs :
        (Moved(p) /\ req'[p].kind = "issue") =>
            LET r == req'[p]
                key == OtpKey(r.email)
            IN /\ Done(r, "issue") =>
                    /\ r.status \in {202, 429}
                    /\ r.status = 202 <=>
                        (r.ecur \in 1..EMAIL_LIMIT /\ r.icur \in 1..IP_LIMIT)
                    /\ r.status = 202 <=> r.tasks = <<Mail(r.otp), Audit("OTP_REQUESTED")>>
                    /\ r.status = 429 <=> r.tasks = <<Audit("OTP_REQUESTED")>>
               /\ (Done(r, "issue") /\ r.status = 202)
                    <=> (r.pc # "idle" /\ req[p].pc = "store")
               /\ req[p].pc = "store"
                    => redis'[key] = [val |-> r.otp, ttl |-> OTP_EXPIRY_SECONDS]
               /\ req[p].pc # "store"
                    => \A e \in Emails : redis'[OtpKey(e)] = redis[OtpKey(e)]]_vars

C10_Witness ==
    \E p \in Procs :
        /\ Done(req[p], "issue")
        /\ req[p].status = 429
        /\ req[p].tasks = <<Audit("OTP_REQUESTED")>>
        /\ Exists(redis, OtpKey(req[p].email))

\* C11: the k-th issue request to reach the email limiter in a window is
\* handed the count k, which no other request of that window holds; the
\* counter equals the number of requests that reached the limiter, and at
\* most EMAIL_LIMIT of them pass it, whatever the interleaving.
C11_DistinctCounts ==
    [][/\ \A e \in Emails :
            /\ redis'[EmailKey(e)].val = reached'[e].n
            /\ reached'[e].passed <= EMAIL_LIMIT
       /\ \A p \in Procs :
            (Moved(p) /\ req[p].pc = "email_incr") =>
                /\ req'[p].ecur = reached[req[p].email].n + 1
                /\ \A q \in Procs \ {p} :
                        (req[q].kind = "issue" /\ req[q].email = req[p].email
                            /\ req[q].ecur > 0)
                            => req[q].ecur # req'[p].ecur]_vars

C11_Witness ==
    \E p \in Procs : \E q \in Procs \ {p} :
        /\ req[p].pc = "email_ttl"
        /\ req[p].ecur = EMAIL_LIMIT + 1
        /\ req[q].pc = "ip_incr"
        /\ req[q].ecur = EMAIL_LIMIT
        /\ req[q].email = req[p].email
        /\ reached[req[p].email] = [n |-> EMAIL_LIMIT + 1, passed |-> EMAIL_LIMIT]

\* C12: every 429 answer carries a retry_after_seconds between 1 and the
\* window of the counter that rejected the request, and every 423 answer an
\* unlock_eta_seconds between 1 and the failure window.
C12_PositiveEta ==
    \A p \in Procs :
        LET r == req[p] IN
        /\ (Done(r, "issue") /\ r.status = 429) =>
                r.eta \in 1..(IF r.reason = EmailReason THEN EMAIL_WINDOW_SECONDS
                              ELSE IP_WINDOW_SECONDS)
        /\ (Done(r, "verify") /\ r.status = 423) =>
                r.eta \in 1..FAILED_WINDOW_SECONDS

\* C13: whenever no request is in flight, every key that exists in the store
\* (OTP record, email, address and failure counter) has an expiry of at least
\* one second and at most its configured lifetime.
C13_EveryKeyExpires ==
    (\A p \in Procs : req[p].pc = "idle") =>
        \A k \in Keys :
            Exists(redis, k) =>
                redis[k].ttl \in 1..Lifetime(k)

\* C14: a counter that has its expiry ends its window exactly its window
\* length after the increment that created it; an increment of a counter
\* that has its expiry leaves the expiry as it is, and no step moves the
\* expiry of an existing counter later.
C14_FixedWindow ==
    [][\A k \in CounterKeys :
        /\ (Exists(redis', k) /\ redis'[k].ttl >= 0)
                => redis'[k].ttl + age'[k] = Lifetime(k)
        /\ (Exists(redis, k) /\ redis[k].ttl >= 0 /\ redis'[k].val > redis[k].val)
                => redis'[k].ttl = redis[k].ttl
        /\ (Exists(redis, k) /\ redis[k].ttl >= 0 /\ Exists(redis', k))
                => redis'[k].ttl <= redis[k].ttl]_vars

C14_Witness ==
    \E p \in Procs :
        LET e == req[p].email IN
        /\ req[p].pc = "email_ttl"
        /\ redis[EmailKey(e)] = [val |-> EMAIL_LIMIT + 1, ttl |-> EMAIL_WINDOW_SECONDS - TimeUnit]
        /\ age[EmailKey(e)] = TimeUnit
        /\ redis[FailedKey(e)] = [val |-> 2, ttl |-> FAILED_WINDOW_SECONDS - TimeUnit]
        /\ age[FailedKey(e)] = TimeUnit

\* C15 (as stated): no step of a request lowers or removes the email, the
\* address or the failure counter.
C15_NeverDecreases ==
    [][(\E p \in Procs : Moved(p)) =>
        \A k \in CounterKeys : redis'[k].val >= redis[k].val]_vars

\* C15 (amended): no step of a request lowers or removes the email or the
\* address counter; the failure counter is lowered by one step only, the one
\* that answers 201 for its identity, which removes it.
C15_DecreasesOnlyByClear ==
    [][(\E p \in Procs : Moved(p)) =>
        \A k \in CounterKeys :
            \/ redis'[k].val >= redis[k].val
            \/ /\ k[1] = "failed_otp"
               /\ ~Exists(redis', k)
               /\ \E p \in Procs :
                    /\ req[p].pc = "clear"
                    /\ req[p].email = k[2]
                    /\ req'[p].status = 201]_vars

C15_Witness ==
    \E p \in Procs :
        LET e == req[p].email IN
        /\ Done(req[p], "verify")
        /\ req[p].status = 201
        /\ req[p].count >= 2
        /\ ~Exists(redis, FailedKey(e))
        /\ redis[EmailKey(e)].val = MaxIssue
        /\ redis[IpKey(req[p].ip)].val = MaxIssue

C17_LockOnlyFromCounter ==
    [][\A p \in Procs :
        LET k == FailedKey(req[p].email) IN
        /\ (Moved(p) /\ req[p].pc = "lock_get")
                => /\ req'[p].pc = "lock_ttl"
                        <=> (Exists(redis, k) /\ redis[k].val >= FAILED_LIMIT)
                   /\ barred[req[p].email] => req'[p].pc = "lock_ttl"
        /\ (Moved(p) /\ req[p].pc \in {"fail_incr", "fail_expire"}
                /\ req'[p].pc # "fail_expire")
                => (req'[p].pc = "fail_ttl" <=> req'[p].current >= FAILED_LIMIT)
        /\ (Moved(p) /\ req[p].pc = "fail_ttl") => req'[p].status = 423]_vars

\* C18: an issue request answered 429 has sent writes for no key other than
\* the counter of the dimension that rejected it: a request rejected by the
\* address limit has not touched the email counter of its identity.
C18_RejectedWritesOneKey ==
    \A p \in Procs :
        LET r == req[p] IN
        (Done(r, "issue") /\ r.status = 429) =>
            r.wrote \subseteq {IF r.reason = EmailReason THEN EmailKey(r.email)
                               ELSE IpKey(r.ip)}

\* C19: the OTP record exists exactly while fewer than OTP_EXPIRY_SECONDS
\* have passed since the latest issue call (and the code is not consumed),
\* with that many seconds less as its remaining lifetime; an issue call sets
\* the full lifetime whatever was stored; a verify that reads the record at
\* or after the end of that lifetime finds it absent and fails, and a verify
\* is accepted only inside it.
C19_OtpExpiry ==
    [][/\ \A e \in Emails :
            LET k == OtpKey(e) IN
            /\ Exists(redis', k) <=> lastIssued'[e].left > 0
            /\ Exists(redis', k) =>
                    /\ redis'[k].ttl = lastIssued'[e].left
                    /\ redis'[k].ttl \in 1..OTP_EXPIRY_SECONDS
       /\ \A p \in Procs :
            LET e == req[p].email IN
            /\ (Moved(p) /\ req[p].pc = "store")
                    => /\ redis'[OtpKey(e)].ttl = OTP_EXPIRY_SECONDS
                       /\ lastIssued'[e].left = OTP_EXPIRY_SECONDS
            /\ (Moved(p) /\ req[p].pc = "otp_get" /\ lastIssued[e].left = 0)
                    => /\ req'[p].stored = ""
                       /\ req'[p].pc = "fail_incr"
            /\ (Moved(p) /\ req[p].pc = "otp_get" /\ req'[p].pc = "otp_del")
                    => lastIssued[e].left \in 1..OTP_EXPIRY_SECONDS]_vars

\* Two issue calls, the second in the middle of the first code's lifetime;
\* a verify one and a half lifetimes after the first call is accepted, which
\* the first code's expiry would not have allowed.
C19_Witness ==
    \E p \in Procs :
        LET e == req[p].email IN
        /\ req[p].pc = "otp_del"
        /\ lastIssued[e].prev # ""
        /\ lastIssued[e].left = OTP_EXPIRY_SECONDS - FineUnit
        /\ redis[EmailKey(e)] =
                [val |-> 2, ttl |-> EMAIL_WINDOW_SECONDS - OTP_EXPIRY_SECONDS]

\* A verify request that passed the lock check and whose code was rejected,
\* because no code was stored (missing) or because the stored one differs.
Rejected(r, missing) ==
    /\ Done(r, "verify")
    /\ ~IsLocked(r.count)
    /\ IF missing THEN r.stored = "" ELSE r.stored \notin {"", r.otp}

\* C20: two failed verify requests that found the same failure counter, one
\* for an identity without a stored code and one for an identity whose stored
\* code differs from the presented one, get the same status, body and audit
\* event, write the same single key (their failure counter) and leave it in
\* the same state.
C20_NoCodeOracle ==
    \A p \in Procs : \A q \in Procs \ {p} :
        LET r == req[p]
            t == req[q]
        IN (/\ Rejected(r, TRUE)
            /\ Rejected(t, FALSE)
            /\ r.email # t.email
            /\ r.fpre = t.fpre)
            => /\ <<r.status, r.eta, r.reason, r.tasks>>
                    = <<t.status, t.eta, t.reason, t.tasks>>
               /\ r.wrote = {FailedKey(r.email)}
               /\ t.wrote = {FailedKey(t.email)}
               /\ redis[FailedKey(r.email)] = redis[FailedKey(t.email)]
               /\ ~Exists(redis, OtpKey(r.email))
               /\ redis[OtpKey(t.email)].val = t.stored

C20_Witness ==
    \E p \in Procs : \E q \in Procs \ {p} :
        /\ Rejected(req[p], TRUE)
        /\ Rejected(req[q], FALSE)
        /\ req[p].email # req[q].email
        /\ req[p].fpre = req[q].fpre
        /\ req[p].fpre = [val |-> FAILED_LIMIT - 1, ttl |-> FAILED_WINDOW_SECONDS]
        /\ req[p].status = 423

\* A step in which the worker has executed the task of slot s: the task has
\* ended or has been sent again.
TaskRan(s) ==
    /\ celery[s] # NoTask
    /\ celery'[s] = NoTask \/ celery'[s].runs > celery[s].runs

\* C21: no execution of an audit or delivery task, whether it succeeds, is
\* sent again or fails for the last time, changes a key of the store or any
\* request in flight or its response.
C21_TaskFailureIsolated ==
    [][\A s \in Slots : TaskRan(s) => (redis' = redis /\ req' = req)]_vars

\* A delivery has raised three times and waits for its last execution; the
\* address counter of its request is in the store.
C21_Witness ==
    \E s \in Slots :
        /\ celery[s].name = "send_otp_email"
        /\ celery[s].runs = MAX_RETRIES
        /\ \E a \in Addrs :
            redis[IpKey(a)] = [val |-> 1, ttl |-> IP_WINDOW_SECONDS - 2 * TimeUnit]

\* C22: a task is sent again at most MAX_RETRIES times, so it is executed at
\* most 1 + MAX_RETRIES times; the execution after the last retry ends it
\* whether it succeeds or raises, and every task in the broker ends.
C22_TasksTerminate ==
    /\ [](\A s \in Slots : celery[s].runs <= MAX_RETRIES)
    /\ [][\A s \in Slots :
            (TaskRan(s) /\ celery[s].runs = MAX_RETRIES) => celery'[s] = NoTask]_vars
    /\ \A s \in Slots : (celery[s] # NoTask) ~> (celery[s] = NoTask)

\* An audit write has raised three times and waits, its countdown running,
\* for the execution that ends it.
C22_Witness ==
    \E s \in Slots :
        /\ celery[s].name = "write_audit_log"
        /\ celery[s].runs = MAX_RETRIES
        /\ celery[s].eta = RETRY_COUNTDOWN

\* C23: an accepted issue request makes its email check before its address
\* check and both before it stores the code, and the step that answers 202
\* has stored the code, then enqueued the audit event, then the delivery.
C23_AuditBeforeDelivery ==
    [][\A p \in Procs :
        (Moved(p) /\ req'[p].kind = "issue") =>
            LET r == req'[p] IN
            /\ r.pc \in {"ip_incr", "ip_expire"} => r.ecur \in 1..EMAIL_LIMIT
            /\ r.pc = "store" => (r.ecur \in 1..EMAIL_LIMIT /\ r.icur \in 1..IP_LIMIT)
            /\ (Done(r, "issue") /\ r.status = 202) =>
                    /\ req[p].pc = "store"
                    /\ redis'[OtpKey(r.email)].val = r.otp
                    /\ r.tasks = <<Audit("OTP_REQUESTED"), Mail(r.otp)>>]_vars

\* C24: under every configured OTP length N the serializer of the verify
\* endpoint passes a presented value on exactly when it is a string of N
\* digits, so that every code the issuer generates is passed on.
C24_LengthFollowsConfig ==
    \A p \in Procs :
        LET r == req[p] IN
        (r.pc = "done" /\ r.kind = "format") =>
            /\ r.reason = "well-formed" <=>
                    (Len(r.otp) = load.length /\ isdigit(r.otp))
            /\ r.stored # <<>> => r.reason = "well-formed"

\* C25: the delete of a verify call removes only the code the call read and
\* matched: when an issue call has stored a code for the identity since that
\* read, the delete leaves the record as the issue call wrote it.
C25_DeleteOnlyComparedCode ==
    [][\A p \in Procs :
        LET key == OtpKey(req[p].email) IN
        (Moved(p) /\ req[p].pc = "otp_del" /\ ~req[p].fresh /\ Exists(redis, key))
            => redis'[key] = redis[key]]_vars

\* C26: in one failure window of an identity the failure counter never
\* exceeds FAILED_LIMIT, and no more than FAILED_LIMIT presented codes are
\* compared and rejected, however the verify requests interleave.
C26_AtMostLimitAttempts ==
    \A e \in Emails :
        /\ redis[FailedKey(e)].val <= FAILED_LIMIT
        /\ fsince[e].n <= FAILED_LIMIT

\* C27: whenever no request is in flight a locked identity's failure counter
\* has an expiry within the failure window, so that the lockout ends by the
\* passing of time alone, and no step of a request moves the expiry of an
\* existing failure counter later.
C27_LockoutLifts ==
    [][\A e \in Emails :
        LET k == FailedKey(e) IN
        /\ (IsLocked(redis'[k].val) /\ \A p \in Procs : req'[p].pc = "idle")
                => redis'[k].ttl \in 1..FAILED_WINDOW_SECONDS
        /\ (Exists(redis, k) /\ redis[k].ttl >= 0 /\ Exists(redis', k))
                => redis'[k].ttl <= redis[k].ttl]_vars

RECURSIVE Sum(_)
Sum(counts) == IF counts = <<>> THEN 0 ELSE Head(counts) + Sum(Tail(counts))

\* The limit of a rate counter.
Limit(k) == IF k[1] = "ratelimit:email" THEN EMAIL_LIMIT ELSE IP_LIMIT

\* C28: the issue requests answered 202 for one email in any interval
\* shorter than EMAIL_WINDOW_SECONDS number at most EMAIL_LIMIT, and those
\* from one address in any interval shorter than IP_WINDOW_SECONDS at most
\* IP_LIMIT, wherever the interval starts.
C28_AnyIntervalBounded ==
    \A k \in RateKeys : Sum(recent[k]) <= Limit(k)

\* C29: a verify call that has sent the delete of the OTP record ends with
\* the failure counter cleared, the answer 201 with the credentials and the
\* audit event VERIFIED, whatever fails after the delete.
C29_ConsumeImpliesSession ==
    \A p \in Procs :
        LET r == req[p] IN
        (r.pc = "done" /\ r.kind = "verify" /\ OtpKey(r.email) \in r.wrote) =>
            /\ r.status = 201
            /\ FailedKey(r.email) \in r.wrote
            /\ r.tasks = <<Audit("OTP_VERIFIED")>>

\* C30: a verify call that finds no stored code goes on to the failure
\* counter as one with a wrong code does; its failure raises the counter by
\* one, is answered 423 when that brings it to FAILED_LIMIT and 400 below,
\* and the lock check then answers locked whether or not a code was ever
\* issued for the identity.
C30_MissingCodeCounts ==
    [][\A p \in Procs :
        LET e == req[p].email
            k == FailedKey(e)
        IN
        /\ (Moved(p) /\ req[p].pc = "otp_get" /\ ~Exists(redis, OtpKey(e)))
                => (req'[p].pc = "fail_incr" /\ req'[p].stored = "")
        /\ (Moved(p) /\ req[p].pc = "fail_incr" /\ req[p].stored = "")
                => /\ redis'[k].val = redis[k].val + 1
                   /\ req'[p].current = redis'[k].val
        /\ (Moved(p) /\ Done(req'[p], "verify") /\ ~IsLocked(req'[p].count)
                /\ req'[p].stored = "")
                => /\ req'[p].current >= 1
                   /\ req'[p].status = IF req'[p].current >= FAILED_LIMIT THEN 423 ELSE 400
        /\ (Moved(p) /\ req[p].pc = "lock_get" /\ redis[k].val >= FAILED_LIMIT)
                => req'[p].pc = "lock_ttl"]_vars

\* An identity for which no code was ever issued is locked by FAILED_LIMIT
\* verify calls and the next call is answered 423 by the lock check.
C30_Witness ==
    \E p \in Procs :
        LET e == req[p].email IN
        /\ Done(req[p], "verify")
        /\ req[p].status = 423
        /\ req[p].reason = "locked"
        /\ e \notin UNION {load.emails[q] : q \in {w \in Procs : "issue" \in load.kinds[w]}}
        /\ lastIssued[e] = NoIssue
        /\ ~Exists(redis, EmailKey(e))
        /\ fsince[e].n = FAILED_LIMIT

\* The audit events among the tasks a request has enqueued.
Audits(r) == SelectSeq(r.tasks, LAMBDA t : t[1] = "write_audit_log")

\* C31: an answered well-formed request has enqueued exactly one audit event:
\* REQUESTED for an issue request, whether answered 202 or 429, the 429 with
\* the reason of the dimension that blocked it; for a verify LOCKED when
\* answered 423, FAILED when answered 400, VERIFIED when answered 201; a
\* request rejected by the serializer has enqueued no task.
C31_OneAuditPerRequest ==
    \A p \in Procs :
        LET r == req[p] IN
        (r.pc = "done" /\ r.kind \in {"issue", "verify"}) =>
            IF r.reason = "invalid" THEN r.status = 400 /\ r.tasks = <<>>
            ELSE /\ Len(Audits(r)) = 1
                 /\ r.kind = "issue" =>
                        /\ r.status \in {202, 429}
                        /\ Audits(r)[1] = Audit("OTP_REQUESTED")
                        /\ r.status = 202 => r.reason = ""
                        /\ r.status = 429 =>
                            r.reason = IF EmailLimited(r.ecur) THEN EmailReason
                                       ELSE IpReason
                 /\ r.kind = "verify" =>
                        /\ r.status \in {423, 400, 201}
                        /\ r.status = 423 => Audits(r)[1] = Audit("OTP_LOCKED")
                        /\ r.status = 400 => Audits(r)[1] = Audit("OTP_FAILED")
                        /\ r.status = 201 => Audits(r)[1] = Audit("OTP_VERIFIED")

\* The eleventh request of the hour from one address is rejected by the
\* address limit, with its reason in the one audit event it enqueues, while
\* the identity is locked out.
C31_Witness ==
    \E p \in Procs :
        LET r == req[p] IN
        /\ Done(r, "issue")
        /\ r.status = 429
        /\ r.reason = IpReason
        /\ r.tasks = <<Audit("OTP_REQUESTED")>>
        /\ redis[FailedKey(r.email)].val >= FAILED_LIMIT

\* A step of handler p (every step of a handler moves its position).
Acted(p) == req'[p].pc # req[p].pc

\* The keys a request may write.
Footprint(r) ==
    IF r.kind = "issue" THEN {OtpKey(r.email), EmailKey(r.email), IpKey(r.ip)}
    ELSE IF r.kind = "verify" THEN {OtpKey(r.email), FailedKey(r.email)}
    ELSE {}

\* C32: a step of an issue request changes and sends writes for no key other
\* than the OTP record and the email counter of its identity and the counter
\* of its address, a step of a verify request for none other than the OTP
\* record and the failure counter of its identity: an issue step leaves every
\* failure counter as it is, value and expiry, and stores the code of a
\* request that passed both limits whether or not the identity is locked; a
\* verify step leaves every rate counter; no step changes an OTP record, an
\* email counter or a failure counter of another identity.
C32_WritesOnlyOwnKeys ==
    [][\A p \in Procs :
        Acted(p) =>
            LET r == req'[p] IN
            /\ \A k \in Keys : redis'[k] # redis[k] => k \in Footprint(r)
            /\ r.wrote \subseteq Footprint(r)
            /\ r.kind = "issue" =>
                    /\ \A e \in Emails : redis'[FailedKey(e)] = redis[FailedKey(e)]
                    /\ req[p].pc = "store" =>
                            (r.status = 202 /\ Exists(redis', OtpKey(r.email)))
            /\ r.kind = "verify" =>
                    \A k \in RateKeys : redis'[k] = redis[k]
            /\ \A e \in Emails \ {r.email} :
                    /\ redis'[OtpKey(e)] = redis[OtpKey(e)]
                    /\ redis'[EmailKey(e)] = redis[EmailKey(e)]
                    /\ redis'[FailedKey(e)] = redis[FailedKey(e)]]_vars

\* An identity that is locked out is issued a code, its lockout running on
\* as it was, while the other identity, for which no code was issued, has
\* failures on its own counter.
C32_Witness ==
    \E p \in Procs :
        LET r == req[p] IN
        /\ Done(r, "issue")
        /\ r.status = 202
        /\ redis[FailedKey(r.email)] =
                [val |-> FAILED_LIMIT, ttl |-> FAILED_WINDOW_SECONDS - EMAIL_WINDOW_SECONDS]
        /\ \E e \in Emails \ {r.email} :
                /\ redis[FailedKey(e)].val \in 1..(FAILED_LIMIT - 1)
                /\ ~Exists(redis, OtpKey(e))

\* C33: an issue request makes its email check first and reaches the address
\* check only when the email check lets it pass: no step of the email check
\* or of the answer to a request it rejected changes an address counter, the
\* address counter is incremented only by a request whose email count is
\* within EMAIL_LIMIT, and a request rejected by the email limit has sent no
\* write for its address counter.
C33_EmailLimitShortCircuits ==
    [][\A p \in Procs :
        (Acted(p) /\ req'[p].kind = "issue") =>
            LET r == req'[p] IN
            /\ req[p].pc \in {"idle", "email_incr", "email_expire", "email_ttl"}
                    => \A a \in Addrs : redis'[IpKey(a)] = redis[IpKey(a)]
            /\ req[p].pc = "ip_incr"
                    => /\ r.ecur \in 1..EMAIL_LIMIT
                       /\ redis'[IpKey(r.ip)].val = redis[IpKey(r.ip)].val + 1
            /\ EmailLimited(r.ecur) => r.pc \in {"email_expire", "email_ttl", "done"}
            /\ (Done(r, "issue") /\ EmailLimited(r.ecur))
                    => /\ r.status = 429
                       /\ r.reason = EmailReason
                       /\ r.icur = 0
                       /\ IpKey(r.ip) \notin r.wrote]_vars

\* The second request of a window that the email limit rejects: the email
\* counter is two above the limit, the address counter has counted only the
\* requests the email limit let pass.
C33_Witness ==
    \E p \in Procs :
        LET r == req[p] IN
        /\ Done(r, "issue")
        /\ r.status = 429
        /\ r.reason = EmailReason
        /\ r.ecur = EMAIL_LIMIT + 2
        /\ redis[IpKey(r.ip)].val = EMAIL_LIMIT
        /\ redis[IpKey(r.ip)].ttl = IP_WINDOW_SECONDS

\* C34: when a task that has been sent again before is sent again, the
\* countdown of the new retry is strictly greater than the countdown of the
\* retry before it, and a multiple of it.
C34_ExponentialBackoff ==
    [][\A s \in Slots :
        (celery[s].runs >= 1 /\ celery'[s].runs > celery[s].runs) =>
            /\ celery'[s].countdown > celery[s].countdown
            /\ celery'[s].countdown % celery[s].countdown = 0]_vars

\* The address counters a request has incremented.
Charged(r) == {k \in r.wrote : k[1] = "ratelimit:ip"}

\* C35: two issue requests that came from the same peer and were counted by
\* the address limiter were counted on the same address counter, the counter
\* of that peer.
C35_CounterFollowsPeer ==
    \A p \in Procs : \A q \in Procs :
        LET r == req[p]
            t == req[q]
        IN (/\ r.kind = "issue" /\ r.icur > 0
            /\ t.kind = "issue" /\ t.icur > 0
            /\ r.peer = t.peer)
            => /\ Charged(r) = Charged(t)
               /\ Charged(r) = {IpKey(r.peer)}

====
